---- MODULE Spec2Model ----
(***************************************************************************)
(* Model of arduino_cloud_led_button.py: a push button and an LED wired to *)
(* three Arduino Cloud variables (button_state, debug_message, led_state). *)
(*                                                                         *)
(* Two threads of control run the program's code:                          *)
(*   - the main thread: module import, main(), and, once                   *)
(*     cloud_client.start() is entered, the client's loop, which calls     *)
(*     led_state_changed for every remote write of led_state;              *)
(*   - the GPIO thread of gpiozero, which calls button_pressed and         *)
(*     button_released for the button's edges.                             *)
(* A step of a thread is one access to shared state (a cloud variable, the *)
(* LED, the console) together with the thread-local code that follows it.  *)
(***************************************************************************)
EXTENDS Naturals, Sequences, FiniteSets

\* Bounds of the model (not program constants).
MaxEdges == 2
MaxRemoteWrites == 2

VARIABLES
    DEBUG,           \* line 85: the DEBUG flag (a source-level setting)
    secretsPresent,  \* whether the local secrets.py exists next to the program
    secretsModule,   \* what "import secrets" bound: "unbound", "local", "stdlib"
    devices,         \* lines 90-93: Button(5) and LED(21) constructed
    physButton,      \* the physical contact state of the button
    queue,           \* edges seen by gpiozero, not yet dispatched
    edges,           \* number of edges seen so far
    remotes,         \* number of remote led_state writes so far
    mainPc,          \* position of the main thread
    mainCaller,      \* caller of print_debug_message on the main thread
    mainMsg,         \* parameter "message" of print_debug_message (main thread)
    lscValue,        \* parameter "value" of led_state_changed
    gpioPc,          \* position of the GPIO thread
    gpioMsg,         \* parameter "message" of print_debug_message (GPIO thread)
    cloud_client,    \* line 96: "None" or "client"
    registered,      \* names registered with the client
    button_state,    \* <<>> is None, <<v>> is the value v
    debug_message,
    led_state,
    when_pressed,    \* line 180 executed
    when_released,   \* line 181 executed
    led,             \* the LED output
    loggingLevel,    \* "unset" or "INFO"
    console,         \* lines on the screen: each the texts written to it
    curLine,         \* texts written to the screen since the last line end
    corrupted,       \* a racing write has corrupted the screen's content
    bsWrites,        \* log of the writes of button_state: who, what
    dmWrites,        \* log of the writes of debug_message
    lsWrites,        \* log of the writes of led_state
    delivered        \* edges for which a button callback was called

vars == <<DEBUG, secretsPresent, secretsModule, devices, physButton, queue,
          edges, remotes, mainPc, mainCaller, mainMsg, lscValue, gpioPc,
          gpioMsg, cloud_client, registered, button_state, debug_message,
          led_state, when_pressed, when_released, led, loggingLevel, console,
          curLine, corrupted, bsWrites, dmWrites, lsWrites, delivered>>

envVars == <<physButton, queue, edges, remotes>>
confVars == <<DEBUG, secretsPresent>>
gpioVars == <<gpioPc, gpioMsg, delivered>>
mainLocals == <<mainCaller, mainMsg, lscValue>>
setupVars == <<secretsModule, devices, cloud_client, registered, when_pressed,
               when_released, loggingLevel>>
cloudVars == <<button_state, debug_message, led_state>>
logVars == <<bsWrites, dmWrites, lsWrites>>
stdout == <<console, curLine, corrupted>>

None == <<>>
Some(v) == <<v>>

SecretsErrorText == "Secrets are stored in secrets.py."
ExitHintText == "Press CTRL-C to exit."

\* line 78: what the import statement finds.  Without a local secrets.py the
\* name resolves to the standard library module "secrets" (Python >= 3.6,
\* which the annotations of the program require), so no ImportError is raised.
ImportSecrets(present) == IF present THEN "local" ELSE "stdlib"

\* lines 106-108: secrets.cloud[...] exists only in the local module.
HasCloudSecrets(module) == module = "local"

\* line 136 and line 144: the value each callback stores.
ButtonPressedValue_neg == FALSE
ButtonPressedValue == TRUE
ButtonReleasedValue == FALSE

\* line 157: led.on() if value else led.off()
LedOutput_stuck(value) == TRUE
LedOutput(value) == IF value THEN TRUE ELSE FALSE

\* line 159: f"Turned {'on' if value else 'off'} LED."
LedMessage_swapped(value) == IF value THEN "Turned off LED." ELSE "Turned on LED."
LedMessage(value) == IF value THEN "Turned on LED." ELSE "Turned off LED."

\* lines 183-186: the startup status message.
StartupMessage(debug) ==
    IF debug THEN "DEBUG mode is enabled." ELSE "DEBUG mode is disabled."

\* lines 137, 145, 158: the test that guards the debug message of an event.
EventDebug_always(debug) == TRUE
EventDebug(debug) == debug

\* line 190: start() is an endless loop; the main thread stays in it.
StartNextPc_returns == "exit"
StartNextPc == "loop"

WriteRec(by, val) == [by |-> by, val |-> val]

\* lines 170, 187: print(text) is two writes on sys.stdout, the text and then
\* the line end, and sys.stdout is shared by the two threads without a lock.
\* A write made while the other thread is inside a print is a data race: it
\* either lands on the screen between the other thread's writes or corrupts
\* the stream, after which nothing is known of the screen's content.
MainInPrint ==
    mainPc \in {"pdm_print", "pdm_newline", "exit_hint", "exit_hint_newline"}

GpioInPrint == gpioPc \in {"pdm_print", "pdm_newline"}

Corrupt ==
    /\ corrupted' = TRUE
    /\ console' = <<>>
    /\ curLine' = <<>>

WriteText(text, racy) ==
    IF corrupted THEN UNCHANGED stdout
    ELSE \/ /\ curLine' = Append(curLine, text)
            /\ UNCHANGED <<console, corrupted>>
         \/ /\ racy
            /\ Corrupt

WriteLineEnd(racy) ==
    IF corrupted THEN UNCHANGED stdout
    ELSE \/ /\ console' = Append(console, curLine)
            /\ curLine' = <<>>
            /\ UNCHANGED corrupted
         \/ /\ racy
            /\ Corrupt

Init ==
    /\ DEBUG \in BOOLEAN
    /\ secretsPresent \in BOOLEAN
    /\ secretsModule = "unbound"
    /\ devices = FALSE
    /\ physButton \in BOOLEAN
    /\ queue = <<>>
    /\ edges = 0
    /\ remotes = 0
    /\ mainPc = "import"
    /\ mainCaller = "none"
    /\ mainMsg = ""
    /\ lscValue = FALSE
    /\ gpioPc = "idle"
    /\ gpioMsg = ""
    /\ cloud_client = "None"
    /\ registered = {}
    /\ button_state = None
    /\ debug_message = None
    /\ led_state = None
    /\ when_pressed = FALSE
    /\ when_released = FALSE
    /\ led = FALSE
    /\ loggingLevel = "unset"
    /\ console = <<>>
    /\ curLine = <<>>
    /\ corrupted = FALSE
    /\ bsWrites = <<>>
    /\ dmWrites = <<>>
    /\ lsWrites = <<>>
    /\ delivered = <<>>

(***************************************************************************)
(* Environment: the physical button.                                       *)
(***************************************************************************)
\* line 90: the contact changes state and gpiozero, which watches the pin
\* from the construction of Button(5) on, sees the edge.
ButtonEdge ==
    /\ devices
    /\ mainPc # "aborted"
    /\ edges < MaxEdges
    /\ edges' = edges + 1
    /\ physButton' = ~physButton
    /\ queue' = Append(queue, IF physButton THEN "released" ELSE "pressed")
    /\ UNCHANGED <<remotes, confVars, gpioVars, mainPc, mainLocals, setupVars,
                   cloudVars, led, stdout, logVars>>

(***************************************************************************)
(* Main thread: module level and main().                                   *)
(***************************************************************************)
\* lines 77-81
ImportStep ==
    /\ mainPc = "import"
    /\ IF ImportSecrets(secretsPresent) = "missing"
       THEN /\ console' = Append(console, <<SecretsErrorText>>)
            /\ mainPc' = "aborted"
            /\ UNCHANGED secretsModule
       ELSE /\ secretsModule' = ImportSecrets(secretsPresent)
            /\ mainPc' = "globals"
            /\ UNCHANGED console
    /\ UNCHANGED <<curLine, corrupted>>
    /\ UNCHANGED <<envVars, confVars, gpioVars, mainLocals, devices,
                   cloud_client, registered, when_pressed, when_released,
                   loggingLevel, cloudVars, led, logVars>>

\* lines 90-96
GlobalInstances ==
    /\ mainPc = "globals"
    /\ devices' = TRUE
    /\ led' = FALSE
    /\ cloud_client' = "None"
    /\ mainPc' = "configure_logging"
    /\ UNCHANGED <<envVars, confVars, gpioVars, mainLocals, secretsModule,
                   registered, when_pressed, when_released, loggingLevel,
                   cloudVars, stdout, logVars>>

\* lines 122-130, called at line 176
configure_logging ==
    /\ mainPc = "configure_logging"
    /\ loggingLevel' = IF DEBUG THEN "INFO" ELSE loggingLevel
    /\ mainPc' = "new_client"
    /\ UNCHANGED <<envVars, confVars, gpioVars, mainLocals, secretsModule,
                   devices, cloud_client, registered, when_pressed,
                   when_released, cloudVars, led, stdout, logVars>>

\* lines 105-109: the arguments are evaluated first; without secrets.cloud the
\* attribute lookup raises and the program ends with cloud_client still None.
NewCloudClient ==
    /\ mainPc = "new_client"
    /\ IF HasCloudSecrets(secretsModule)
       THEN /\ cloud_client' = "client"
            /\ mainPc' = "register_button_state"
       ELSE /\ mainPc' = "aborted"
            /\ UNCHANGED cloud_client
    /\ UNCHANGED <<envVars, confVars, gpioVars, mainLocals, secretsModule,
                   devices, registered, when_pressed, when_released,
                   loggingLevel, cloudVars, led, stdout, logVars>>

\* lines 110-113
RegisterButtonState ==
    /\ mainPc = "register_button_state"
    /\ registered' = registered \cup {"button_state"}
    /\ button_state' = Some(physButton)
    /\ mainPc' = "register_debug_message"
    /\ UNCHANGED <<envVars, confVars, gpioVars, mainLocals, secretsModule,
                   devices, cloud_client, when_pressed, when_released,
                   loggingLevel, debug_message, led_state, led, stdout,
                   logVars>>

\* line 114
RegisterDebugMessage_late ==
    /\ mainPc = "register_debug_message"
    /\ mainPc' = "register_led_state"
    /\ UNCHANGED <<envVars, confVars, gpioVars, mainLocals, setupVars,
                   cloudVars, led, stdout, logVars>>

RegisterDebugMessage ==
    /\ mainPc = "register_debug_message"
    /\ registered' = registered \cup {"debug_message"}
    /\ debug_message' = None
    /\ mainPc' = "register_led_state"
    /\ UNCHANGED <<envVars, confVars, gpioVars, mainLocals, secretsModule,
                   devices, cloud_client, when_pressed, when_released,
                   loggingLevel, button_state, led_state, led, stdout,
                   logVars>>

\* lines 115-119
RegisterLedState ==
    /\ mainPc = "register_led_state"
    /\ registered' = registered \cup {"led_state"}
    /\ led_state' = None
    /\ mainPc' = "attach_when_pressed"
    /\ UNCHANGED <<envVars, confVars, gpioVars, mainLocals, secretsModule,
                   devices, cloud_client, when_pressed, when_released,
                   loggingLevel, button_state, debug_message, led, stdout,
                   logVars>>

\* line 180
AttachWhenPressed ==
    /\ mainPc = "attach_when_pressed"
    /\ when_pressed' = TRUE
    /\ mainPc' = "attach_when_released"
    /\ UNCHANGED <<envVars, confVars, gpioVars, mainLocals, secretsModule,
                   devices, cloud_client, registered, when_released,
                   loggingLevel, cloudVars, led, stdout, logVars>>

\* line 181, and lines 183-186: the call of print_debug_message
AttachWhenReleased ==
    /\ mainPc = "attach_when_released"
    /\ when_released' = TRUE
    /\ mainMsg' = StartupMessage(DEBUG)
    /\ mainCaller' = "main"
    /\ mainPc' = "pdm_write"
    /\ UNCHANGED <<envVars, confVars, gpioVars, lscValue, secretsModule,
                   devices, cloud_client, registered, when_pressed,
                   loggingLevel, cloudVars, led, stdout, logVars>>

\* line 169, on the main thread
MainPdmWrite ==
    /\ mainPc = "pdm_write"
    /\ debug_message' = Some(mainMsg)
    /\ dmWrites' = Append(dmWrites,
                     WriteRec(IF mainCaller = "main" THEN "main" ELSE "cloud",
                              mainMsg))
    /\ mainPc' = "pdm_print"
    /\ UNCHANGED <<envVars, confVars, gpioVars, mainLocals, setupVars,
                   button_state, led_state, led, stdout, bsWrites, lsWrites>>

\* line 170, on the main thread: the text
MainPdmPrint ==
    /\ mainPc = "pdm_print"
    /\ WriteText(mainMsg, GpioInPrint)
    /\ mainPc' = "pdm_newline"
    /\ UNCHANGED <<envVars, confVars, gpioVars, mainLocals, setupVars,
                   cloudVars, led, logVars>>

\* line 170, on the main thread: the line end, and the return to the caller
MainPdmNewline ==
    /\ mainPc = "pdm_newline"
    /\ WriteLineEnd(GpioInPrint)
    /\ mainPc' = IF mainCaller = "main" THEN "exit_hint" ELSE "loop"
    /\ mainCaller' = "none"
    /\ UNCHANGED <<envVars, confVars, gpioVars, mainMsg, lscValue, setupVars,
                   cloudVars, led, logVars>>

\* line 187: the text
ExitHint_republish ==
    /\ mainPc = "exit_hint"
    /\ WriteText(ExitHintText, GpioInPrint)
    /\ debug_message' = Some(StartupMessage(DEBUG))
    /\ dmWrites' = Append(dmWrites, WriteRec("main", StartupMessage(DEBUG)))
    /\ mainPc' = "exit_hint_newline"
    /\ UNCHANGED <<envVars, confVars, gpioVars, mainLocals, setupVars,
                   button_state, led_state, led, bsWrites, lsWrites>>

ExitHint ==
    /\ mainPc = "exit_hint"
    /\ WriteText(ExitHintText, GpioInPrint)
    /\ mainPc' = "exit_hint_newline"
    /\ UNCHANGED <<envVars, confVars, gpioVars, mainLocals, setupVars,
                   cloudVars, led, logVars>>

\* line 187: the line end
ExitHintNewline ==
    /\ mainPc = "exit_hint_newline"
    /\ WriteLineEnd(GpioInPrint)
    /\ mainPc' = "start"
    /\ UNCHANGED <<envVars, confVars, gpioVars, mainLocals, setupVars,
                   cloudVars, led, logVars>>

\* line 190
CloudClientStart ==
    /\ mainPc = "start"
    /\ mainPc' = StartNextPc
    /\ UNCHANGED <<envVars, confVars, gpioVars, mainLocals, setupVars,
                   cloudVars, led, stdout, logVars>>

(***************************************************************************)
(* Main thread inside start(): the client's loop and led_state_changed.    *)
(***************************************************************************)
\* lines 115-119: the remote side writes led_state; the client stores the
\* value and calls on_write(client, value).
RemoteLedWrite ==
    /\ mainPc = "loop"
    /\ remotes < MaxRemoteWrites
    /\ \E v \in BOOLEAN :
        /\ led_state' = Some(v)
        /\ lsWrites' = Append(lsWrites, WriteRec("cloud", v))
        /\ lscValue' = v
    /\ remotes' = remotes + 1
    /\ mainPc' = "lsc"
    /\ UNCHANGED <<physButton, queue, edges, confVars, gpioVars, mainCaller,
                   mainMsg, setupVars, button_state, debug_message, led,
                   stdout, bsWrites, dmWrites>>

\* lines 157-159: the LED is driven, then the message is chosen and
\* print_debug_message called
LedStateChanged_bs ==
    /\ mainPc = "lsc"
    /\ led' = LedOutput(lscValue)
    /\ button_state' = Some(lscValue)
    /\ bsWrites' = Append(bsWrites, WriteRec("cloud", lscValue))
    /\ IF EventDebug(DEBUG)
       THEN /\ mainMsg' = LedMessage(lscValue)
            /\ mainCaller' = "lsc"
            /\ mainPc' = "pdm_write"
       ELSE /\ mainPc' = "loop"
            /\ UNCHANGED <<mainMsg, mainCaller>>
    /\ UNCHANGED <<envVars, confVars, gpioVars, lscValue, setupVars,
                   debug_message, led_state, stdout, dmWrites, lsWrites>>

LedStateChanged ==
    /\ mainPc = "lsc"
    /\ led' = LedOutput(lscValue)
    /\ IF EventDebug(DEBUG)
       THEN /\ mainMsg' = LedMessage(lscValue)
            /\ mainCaller' = "lsc"
            /\ mainPc' = "pdm_write"
       ELSE /\ mainPc' = "loop"
            /\ UNCHANGED <<mainMsg, mainCaller>>
    /\ UNCHANGED <<envVars, confVars, gpioVars, lscValue, setupVars, cloudVars,
                   stdout, logVars>>

(***************************************************************************)
(* GPIO thread: dispatch of the edges and the two button callbacks.        *)
(***************************************************************************)
\* lines 180-181: gpiozero calls the handler of the edge, if one is attached.
GpioDispatch ==
    /\ mainPc # "aborted"
    /\ gpioPc = "idle"
    /\ queue # <<>>
    /\ queue' = Tail(queue)
    /\ IF Head(queue) = "pressed" /\ when_pressed
       THEN /\ gpioPc' = "button_pressed"
            /\ delivered' = Append(delivered, "pressed")
       ELSE IF Head(queue) = "released" /\ when_released
       THEN /\ gpioPc' = "button_released"
            /\ delivered' = Append(delivered, "released")
       ELSE UNCHANGED <<gpioPc, delivered>>
    /\ UNCHANGED <<physButton, edges, remotes, confVars, gpioMsg, mainPc,
                   mainLocals, setupVars, cloudVars, led, stdout, logVars>>

\* lines 136-138
ButtonPressed_led ==
    /\ gpioPc = "button_pressed"
    /\ button_state' = Some(ButtonPressedValue)
    /\ led' = TRUE
    /\ bsWrites' = Append(bsWrites, WriteRec("gpio", ButtonPressedValue))
    /\ IF EventDebug(DEBUG)
       THEN /\ gpioMsg' = "Button pressed."
            /\ gpioPc' = "pdm_write"
       ELSE /\ gpioPc' = "idle"
            /\ UNCHANGED gpioMsg
    /\ UNCHANGED <<envVars, confVars, delivered, mainPc, mainLocals, setupVars,
                   debug_message, led_state, stdout, dmWrites, lsWrites>>

ButtonPressed ==
    /\ gpioPc = "button_pressed"
    /\ button_state' = Some(ButtonPressedValue)
    /\ bsWrites' = Append(bsWrites, WriteRec("gpio", ButtonPressedValue))
    /\ IF EventDebug(DEBUG)
       THEN /\ gpioMsg' = "Button pressed."
            /\ gpioPc' = "pdm_write"
       ELSE /\ gpioPc' = "idle"
            /\ UNCHANGED gpioMsg
    /\ UNCHANGED <<envVars, confVars, delivered, mainPc, mainLocals, setupVars,
                   debug_message, led_state, led, stdout, dmWrites, lsWrites>>

\* lines 144-146
ButtonReleased_msg ==
    /\ gpioPc = "button_released"
    /\ button_state' = Some(ButtonReleasedValue)
    /\ bsWrites' = Append(bsWrites, WriteRec("gpio", ButtonReleasedValue))
    /\ IF EventDebug(DEBUG)
       THEN /\ gpioMsg' = "Button pressed."
            /\ gpioPc' = "pdm_write"
       ELSE /\ gpioPc' = "idle"
            /\ UNCHANGED gpioMsg
    /\ UNCHANGED <<envVars, confVars, delivered, mainPc, mainLocals, setupVars,
                   debug_message, led_state, led, stdout, dmWrites, lsWrites>>

ButtonReleased ==
    /\ gpioPc = "button_released"
    /\ button_state' = Some(ButtonReleasedValue)
    /\ bsWrites' = Append(bsWrites, WriteRec("gpio", ButtonReleasedValue))
    /\ IF EventDebug(DEBUG)
       THEN /\ gpioMsg' = "Button released."
            /\ gpioPc' = "pdm_write"
       ELSE /\ gpioPc' = "idle"
            /\ UNCHANGED gpioMsg
    /\ UNCHANGED <<envVars, confVars, delivered, mainPc, mainLocals, setupVars,
                   debug_message, led_state, led, stdout, dmWrites, lsWrites>>

\* line 169, on the GPIO thread
GpioPdmWrite ==
    /\ gpioPc = "pdm_write"
    /\ debug_message' = Some(gpioMsg)
    /\ dmWrites' = Append(dmWrites, WriteRec("gpio", gpioMsg))
    /\ gpioPc' = "pdm_print"
    /\ UNCHANGED <<envVars, confVars, gpioMsg, delivered, mainPc, mainLocals,
                   setupVars, button_state, led_state, led, stdout, bsWrites,
                   lsWrites>>

\* line 170, on the GPIO thread: the text
GpioPdmPrint ==
    /\ gpioPc = "pdm_print"
    /\ WriteText(gpioMsg, MainInPrint)
    /\ gpioPc' = "pdm_newline"
    /\ UNCHANGED <<envVars, confVars, gpioMsg, delivered, mainPc, mainLocals,
                   setupVars, cloudVars, led, logVars>>

\* line 170, on the GPIO thread: the line end, and the return from the callback
GpioPdmNewline ==
    /\ gpioPc = "pdm_newline"
    /\ WriteLineEnd(MainInPrint)
    /\ gpioPc' = "idle"
    /\ UNCHANGED <<envVars, confVars, gpioMsg, delivered, mainPc, mainLocals,
                   setupVars, cloudVars, led, logVars>>

Next ==
    \/ ButtonEdge
    \/ ImportStep
    \/ GlobalInstances
    \/ configure_logging
    \/ NewCloudClient
    \/ RegisterButtonState
    \/ RegisterDebugMessage
    \/ RegisterLedState
    \/ AttachWhenPressed
    \/ AttachWhenReleased
    \/ MainPdmWrite
    \/ MainPdmPrint
    \/ MainPdmNewline
    \/ ExitHint
    \/ ExitHintNewline
    \/ CloudClientStart
    \/ RemoteLedWrite
    \/ LedStateChanged
    \/ GpioDispatch
    \/ ButtonPressed
    \/ ButtonReleased
    \/ GpioPdmWrite
    \/ GpioPdmPrint
    \/ GpioPdmNewline

Spec == Init /\ [][Next]_vars

(***************************************************************************)
(* Observations used by the properties.                                    *)
(***************************************************************************)
CountIn(seq, x) == Cardinality({i \in DOMAIN seq : seq[i] = x})

CountVal(log, x) == Cardinality({i \in DOMAIN log : log[i].val = x})

DebugTexts ==
    {"DEBUG mode is enabled.", "DEBUG mode is disabled.", "Button pressed.",
     "Button released.", "Turned on LED.", "Turned off LED."}

PdmPcs == {"pdm_write", "pdm_print", "pdm_newline"}

\* The main thread is inside cloud_client.start().
InStart ==
    \/ mainPc \in {"loop", "lsc"}
    \/ mainPc \in PdmPcs /\ mainCaller = "lsc"

\* The startup call of print_debug_message has returned.
StartupDone ==
    mainPc \in {"exit_hint", "exit_hint_newline", "start"} \/ InStart

AllNames == {"button_state", "debug_message", "led_state"}

\* The text is on the screen, alone on its line or not.
OnScreen(text) ==
    \/ \E i \in DOMAIN console : \E j \in DOMAIN console[i] : console[i][j] = text
    \/ \E j \in DOMAIN curLine : curLine[j] = text

\* No call of print_debug_message is in progress on either thread.
NoPdmInProgress == mainPc \notin PdmPcs /\ gpioPc \notin PdmPcs

(***************************************************************************)
(* C1: once a button callback has stored its value, and until the next     *)
(* callback starts, button_state is true for a press and false for a       *)
(* release; the callbacks' writes of button_state are, one for one and in  *)
(* order, the delivered edges, whatever DEBUG and the previous value are.  *)
(***************************************************************************)
C1_EdgeWritesButtonState ==
    LET running == IF gpioPc \in {"button_pressed", "button_released"}
                   THEN 1 ELSE 0
    IN  /\ Len(bsWrites) + running = Len(delivered)
        /\ \A i \in DOMAIN bsWrites :
              /\ bsWrites[i].by = "gpio"
              /\ bsWrites[i].val = (delivered[i] = "pressed")
        /\ (running = 0 /\ delivered # <<>>) =>
              button_state = Some(delivered[Len(delivered)] = "pressed")

C1_Witness ==
    /\ ~DEBUG
    /\ gpioPc = "idle"
    /\ Len(delivered) >= 2
    /\ delivered[1] = "pressed"
    /\ delivered[2] = "released"
    /\ button_state = Some(FALSE)

(***************************************************************************)
(* C2: after led_state_changed has driven the LED for a remote write of v  *)
(* the LED is on iff v; whenever the client's loop is between              *)
(* notifications the LED output is the value of the latest remote write,   *)
(* for both settings of DEBUG and with button events interleaved.          *)
(***************************************************************************)
C2_LedFollowsRemoteWrite ==
    /\ (mainPc \in PdmPcs /\ mainCaller = "lsc") => led = lscValue
    /\ (mainPc = "loop" /\ lsWrites # <<>>) =>
          /\ led = lsWrites[Len(lsWrites)].val
          /\ led_state = Some(led)

C2_Witness ==
    /\ mainPc = "loop"
    /\ Len(lsWrites) >= 2
    /\ lsWrites[1].val = TRUE
    /\ lsWrites[2].val = FALSE
    /\ led = FALSE
    /\ delivered # <<>>

(***************************************************************************)
(* C3 (as claimed): every call of print_debug_message(m) writes m to       *)
(* debug_message and prints the same m, so that, whenever no call is in    *)
(* progress, the console has for every text as many lines with exactly     *)
(* that text as there are writes of it to debug_message.                   *)
(***************************************************************************)
C3_ConsoleMatchesDebugMessage ==
    NoPdmInProgress =>
        /\ ~corrupted
        /\ \A m \in DebugTexts : CountVal(dmWrites, m) = CountIn(console, <<m>>)

(***************************************************************************)
(* C4: with DEBUG false the only write of debug_message is the startup     *)
(* message "DEBUG mode is disabled.", the console has that line and the    *)
(* exit hint and nothing else, and debug_message keeps that value after    *)
(* startup; with DEBUG true the startup message main publishes is "DEBUG   *)
(* mode is enabled.".                                                      *)
(***************************************************************************)
C4_DebugDisabledOnlyStartup ==
    LET text == IF DEBUG THEN "DEBUG mode is enabled."
                ELSE "DEBUG mode is disabled."
    IN  /\ StartupDone =>
              /\ \E i \in DOMAIN dmWrites : dmWrites[i] = WriteRec("main", text)
              /\ CountVal(dmWrites, text) = 1
              /\ ~corrupted => OnScreen(text)
        /\ ~DEBUG =>
              /\ ~corrupted
              /\ Len(dmWrites) <= 1
              /\ \A i \in DOMAIN dmWrites :
                    dmWrites[i].val = "DEBUG mode is disabled."
              /\ \A i \in DOMAIN console :
                    console[i] \in {<<"DEBUG mode is disabled.">>,
                                    <<ExitHintText>>}
              /\ curLine \in {<<>>, <<"DEBUG mode is disabled.">>,
                               <<ExitHintText>>}
              /\ StartupDone =>
                    /\ console # <<>>
                    /\ console[1] = <<"DEBUG mode is disabled.">>
                    /\ debug_message = Some("DEBUG mode is disabled.")

C4_Witness ==
    /\ ~DEBUG
    /\ mainPc = "loop"
    /\ gpioPc = "idle"
    /\ remotes >= 1
    /\ Len(delivered) >= 2
    /\ debug_message = Some("DEBUG mode is disabled.")
    /\ console = <<<<"DEBUG mode is disabled.">>, <<ExitHintText>>>>

(***************************************************************************)
(* C5 (as claimed): without the local secrets module the program never     *)
(* constructs the client, registers a variable, attaches a callback or     *)
(* calls start, and when it has aborted the secrets error message has been *)
(* printed.                                                                *)
(***************************************************************************)
C5_MissingSecretsReported ==
    ~secretsPresent =>
        /\ cloud_client = "None"
        /\ registered = {}
        /\ ~when_pressed
        /\ ~when_released
        /\ mainPc # "start"
        /\ ~InStart
        /\ mainPc = "aborted" =>
              <<SecretsErrorText>> \in {console[i] : i \in DOMAIN console}

(***************************************************************************)
(* C6 (as claimed): button_state and debug_message are written only from   *)
(* the GPIO side and led_state only by the cloud side.                     *)
(***************************************************************************)
C6_SingleWriterAsClaimed ==
    /\ \A i \in DOMAIN bsWrites : bsWrites[i].by = "gpio"
    /\ \A i \in DOMAIN dmWrites : dmWrites[i].by = "gpio"
    /\ \A i \in DOMAIN lsWrites : lsWrites[i].by = "cloud"

(***************************************************************************)
(* C6 (amended): button_state is written only by the button callbacks and  *)
(* led_state only by the cloud side; debug_message is written by main (the *)
(* startup message), by led_state_changed, which the cloud client calls    *)
(* (DEBUG true), and by the button callbacks (DEBUG true).                 *)
(***************************************************************************)
C6_WritersOfEachVariable ==
    /\ \A i \in DOMAIN bsWrites : bsWrites[i].by = "gpio"
    /\ \A i \in DOMAIN lsWrites : lsWrites[i].by = "cloud"
    /\ \A i \in DOMAIN dmWrites :
          \/ /\ dmWrites[i].by = "main"
             /\ dmWrites[i].val \in {"DEBUG mode is enabled.",
                                     "DEBUG mode is disabled."}
          \/ /\ dmWrites[i].by = "cloud"
             /\ DEBUG
             /\ dmWrites[i].val \in {"Turned on LED.", "Turned off LED."}
          \/ /\ dmWrites[i].by = "gpio"
             /\ DEBUG
             /\ dmWrites[i].val \in {"Button pressed.", "Button released."}

C6_Witness ==
    /\ {dmWrites[i].by : i \in DOMAIN dmWrites} = {"main", "cloud", "gpio"}
    /\ bsWrites # <<>>
    /\ lsWrites # <<>>

(***************************************************************************)
(* C7 (as claimed): whenever button_state is registered and no button edge *)
(* is pending or being handled, button_state is the physical state of the  *)
(* button.                                                                 *)
(***************************************************************************)
C7_ButtonStateMirrorsButton ==
    ("button_state" \in registered /\ gpioPc = "idle" /\ queue = <<>>) =>
        button_state = Some(physButton)

(***************************************************************************)
(* C8: the steps of button_pressed and button_released (with the           *)
(* print_debug_message they call) leave the LED output and led_state       *)
(* unchanged; the steps of led_state_changed leave button_state unchanged; *)
(* the steps of print_debug_message change none of button_state, led_state *)
(* and the LED output.                                                     *)
(***************************************************************************)
C8_CallbackFrames ==
    [][ /\ (gpioPc # "idle" /\ gpioPc' # gpioPc) =>
              UNCHANGED <<led, led_state>>
        /\ ((mainPc = "lsc" \/ (mainPc \in PdmPcs /\ mainCaller = "lsc"))
            /\ mainPc' # mainPc) =>
              UNCHANGED button_state
        /\ ((mainPc \in PdmPcs /\ mainPc' # mainPc) \/
            (gpioPc \in PdmPcs /\ gpioPc' # gpioPc)) =>
              UNCHANGED <<button_state, led_state, led>>
      ]_vars

C8_Witness ==
    /\ DEBUG
    /\ mainPc = "loop"
    /\ gpioPc = "idle"
    /\ led
    /\ led_state = Some(TRUE)
    /\ button_state = Some(FALSE)
    /\ Len(delivered) >= 2
    /\ Len(dmWrites) >= 4

(***************************************************************************)
(* C9: the effects of main appear in the order logging configuration,      *)
(* client configuration, callback attachment, startup message, exit hint,  *)
(* start; from the call of start the main thread goes only into the        *)
(* client's loop, and once inside it never leaves.                         *)
(***************************************************************************)
C9_StartupOrderInv ==
    /\ (cloud_client = "client" /\ DEBUG) => loggingLevel = "INFO"
    /\ registered # {} => cloud_client = "client"
    /\ (when_pressed \/ when_released) => registered = AllNames
    /\ when_released => when_pressed
    /\ (\E i \in DOMAIN dmWrites : dmWrites[i].by = "main") => when_released
    /\ OnScreen(ExitHintText) =>
          /\ \E i \in DOMAIN dmWrites : dmWrites[i].by = "main"
          /\ OnScreen(StartupMessage(DEBUG))
    /\ (mainPc = "start" \/ InStart) =>
          /\ ~corrupted => OnScreen(ExitHintText)
          /\ ~DEBUG => console = <<<<"DEBUG mode is disabled.">>,
                                   <<ExitHintText>>>>

C9_MainBlocksInStart ==
    /\ []C9_StartupOrderInv
    /\ [][ /\ mainPc = "start" => (mainPc' = "start" \/ InStart')
           /\ InStart => InStart'
         ]_vars

C9_Witness ==
    /\ mainPc = "loop"
    /\ remotes >= 2
    /\ Len(delivered) >= 1
    /\ loggingLevel = "INFO"

(***************************************************************************)
(* C10: with DEBUG true, between notifications the client has published    *)
(* one debug message per led_state write, the i-th being "Turned on LED."  *)
(* if the i-th value written is true and "Turned off LED." otherwise; and  *)
(* while led_state_changed is publishing its message the LED output is on  *)
(* exactly when the message is "Turned on LED.".                           *)
(***************************************************************************)
C10_LedDebugMessage ==
    LET ls == lsWrites
        cm == SelectSeq(dmWrites, LAMBDA w : w.by = "cloud")
    IN  DEBUG =>
        /\ mainPc = "loop" => Len(cm) = Len(ls)
        /\ Len(cm) <= Len(ls)
        /\ \A i \in DOMAIN cm :
              /\ cm[i].val \in {"Turned on LED.", "Turned off LED."}
              /\ (cm[i].val = "Turned on LED.") = ls[i].val
        /\ (mainPc \in PdmPcs /\ mainCaller = "lsc") =>
              /\ mainMsg \in {"Turned on LED.", "Turned off LED."}
              /\ led = (mainMsg = "Turned on LED.")
              /\ Len(cm) = Len(ls) - (IF mainPc = "pdm_write" THEN 1 ELSE 0)

C10_Witness ==
    LET ls == lsWrites
    IN  /\ DEBUG
        /\ mainPc = "pdm_print"
        /\ mainCaller = "lsc"
        /\ mainMsg = "Turned off LED."
        /\ ~led
        /\ Len(ls) >= 2
        /\ ls[1].val = TRUE

(***************************************************************************)
(* C11: with DEBUG true the button callbacks publish one debug message per *)
(* delivered edge, after the button_state write of that edge: "Button      *)
(* pressed." for a press and "Button released." for a release; from the    *)
(* publication of a callback's message until the next callback starts,     *)
(* button_state is true exactly when that message is "Button pressed.".    *)
(***************************************************************************)
C11_ButtonDebugMessage ==
    LET gm == SelectSeq(dmWrites, LAMBDA w : w.by = "gpio")
    IN  DEBUG =>
        /\ gpioPc = "idle" => Len(gm) = Len(delivered)
        /\ gpioPc = "pdm_write" => Len(gm) = Len(bsWrites) - 1
        /\ gpioPc \in {"pdm_print", "pdm_newline"} => Len(gm) = Len(bsWrites)
        /\ Len(gm) <= Len(bsWrites)
        /\ \A i \in DOMAIN gm :
              gm[i].val = IF delivered[i] = "pressed" THEN "Button pressed."
                          ELSE "Button released."
        /\ gpioPc \in PdmPcs =>
              gpioMsg = IF delivered[Len(delivered)] = "pressed"
                        THEN "Button pressed." ELSE "Button released."
        /\ (gpioPc \in {"pdm_print", "pdm_newline", "idle"} /\ gm # <<>>) =>
              /\ (button_state = Some(TRUE)) =
                    (gm[Len(gm)].val = "Button pressed.")
              /\ (button_state = Some(FALSE)) =
                    (gm[Len(gm)].val = "Button released.")

C11_Witness ==
    /\ DEBUG
    /\ gpioPc = "pdm_print"
    /\ gpioMsg = "Button released."
    /\ button_state = Some(FALSE)
    /\ Len(delivered) >= 2
    /\ delivered[1] = "pressed"

(***************************************************************************)
(* C12: whenever button_pressed, button_released, led_state_changed or     *)
(* print_debug_message is executing, cloud_client is not None and          *)
(* button_state, debug_message and led_state are all registered; the same  *)
(* holds once a button callback is attached and once main has reached      *)
(* cloud_client.start().                                                   *)
(***************************************************************************)
C12_CallbacksSeeConfiguredClient ==
    LET configured == cloud_client = "client" /\ registered = AllNames
    IN  /\ gpioPc # "idle" => configured
        /\ mainPc \in PdmPcs \cup {"lsc"} => configured
        /\ (when_pressed \/ when_released) => configured
        /\ (mainPc = "start" \/ InStart) => configured

C12_Witness ==
    /\ gpioPc = "pdm_write"
    /\ mainPc = "lsc"
    /\ cloud_client = "client"
    /\ registered = AllNames
    /\ bsWrites # <<>>

\* The debug lines of the console are its lines other than the exit hint.
DebugLineIndexes == {i \in DOMAIN console : console[i] # <<ExitHintText>>}

LastDebugLine ==
    console[CHOOSE i \in DebugLineIndexes :
                \A j \in DebugLineIndexes : j <= i]

(***************************************************************************)
(* C13 (as claimed): with DEBUG true, whenever no call of                  *)
(* print_debug_message is in progress on either thread, the last debug     *)
(* line on the console is the current value of debug_message.              *)
(***************************************************************************)
C13_ChannelsAgreeOnLastMessage ==
    (/\ DEBUG
     /\ mainPc \notin PdmPcs
     /\ gpioPc \notin PdmPcs
     /\ DebugLineIndexes # {}) =>
        LastDebugLine = debug_message

\* main's call of print_debug_message has written the startup message.
StartupWritten == \E i \in DOMAIN dmWrites : dmWrites[i].by = "main"

\* The parts of C14 that the claim and its amendment share: the startup
\* text is written and printed at most once, by main, with all three
\* variables registered, and exactly once by the time start() is reached.
C14_StartupOnce ==
    LET text == IF DEBUG THEN "DEBUG mode is enabled."
                ELSE "DEBUG mode is disabled."
    IN  /\ CountVal(dmWrites, text) <= 1
        /\ Cardinality({i \in DOMAIN console :
                           \E j \in DOMAIN console[i] : console[i][j] = text})
           + (IF \E j \in DOMAIN curLine : curLine[j] = text THEN 1 ELSE 0)
           <= 1
        /\ \A i \in DOMAIN dmWrites :
              (dmWrites[i].by = "main") = (dmWrites[i].val = text)
        /\ StartupWritten =>
              /\ registered = AllNames
              /\ CountVal(dmWrites, text) = 1
        /\ (mainPc = "start" \/ InStart) =>
              /\ CountVal(dmWrites, text) = 1
              /\ ~corrupted => OnScreen(text)
        /\ ~StartupWritten =>
              mainPc \notin {"exit_hint", "exit_hint_newline", "start", "loop",
                             "lsc"}

(***************************************************************************)
(* C14 (as claimed): the startup message is emitted exactly once, after    *)
(* the three registrations and before start() is entered, its text is      *)
(* never written again, and debug_message is None in every state before    *)
(* the startup message is written.                                         *)
(***************************************************************************)
C14_StartupMessageAsClaimed ==
    /\ C14_StartupOnce
    /\ ~StartupWritten => debug_message = None

(***************************************************************************)
(* C14 (amended): the startup message is emitted exactly once, after the   *)
(* three registrations and before start() is entered, and its text is      *)
(* never written again; before it is written debug_message is None as long *)
(* as no button callback has published, which can happen only with DEBUG   *)
(* true and the callbacks attached, and then debug_message is that         *)
(* callback's "Button pressed." or "Button released.".                     *)
(***************************************************************************)
C14_StartupMessageOnce ==
    /\ C14_StartupOnce
    /\ ~StartupWritten =>
          /\ \A i \in DOMAIN dmWrites :
                /\ dmWrites[i].by = "gpio"
                /\ DEBUG
                /\ when_pressed
          /\ debug_message =
                IF dmWrites = <<>> THEN None
                ELSE Some(dmWrites[Len(dmWrites)].val)
          /\ debug_message \in {None, Some("Button pressed."),
                                Some("Button released.")}

C14_Witness ==
    /\ mainPc = "loop"
    /\ Len(dmWrites) >= 3
    /\ dmWrites[1].by = "gpio"
    /\ dmWrites[2].by = "main"
    /\ OnScreen("DEBUG mode is enabled.")

====
